---------------------------- MODULE Spec2Model ----------------------------
(***************************************************************************)
(* Model of the dashboard's synchronization core:                          *)
(*   - the useWebSocket hook (dashboard/frontend/src/hooks/useWebSocket.js)*)
(*     : connect / disconnect / sendMessage, the WebSocket lifecycle       *)
(*     callbacks, the reconnect timer, the heartbeat interval and the      *)
(*     outbound message queue;                                             *)
(*   - the zustand dashboard store (its source is the block that starts at *)
(*     line 268 of PRODUCTION_DEPLOYMENT_GUIDE.md): addTrade, addAlert,    *)
(*     markAlertRead, clearAllAlerts;                                      *)
(*   - the AlertsPanel "Mark All Read" button.                             *)
(*                                                                         *)
(* The hook is a React hook.  Two facts of React decide its behaviour and  *)
(* are modelled as they are:                                               *)
(*   1. `reconnectCount` read inside `connect` (and inside the callbacks   *)
(*      `connect` installs on a socket) is the value of the render that    *)
(*      created that `connect`; every socket therefore carries the         *)
(*      reconnectCount its callbacks closed over (field rc), and so does   *)
(*      every reconnect timer.                                             *)
(*   2. `connect` is rebuilt whenever reconnectCount changes (useCallback  *)
(*      deps, line 226), and the mount effect (lines 278-284) depends on   *)
(*      `connect`: a change of reconnectCount runs the effect's cleanup,   *)
(*      disconnect(), and then the effect, connect().  The re-run is the   *)
(*      step RunEffects, taken before any other event is handled.          *)
(***************************************************************************)
EXTENDS Integers, Sequences, FiniteSets, TLC

VARIABLES
    reconnectCount,     \* useState reconnectCount (line 57)
    isConnected,        \* useState isConnected (line 55), mirrored in the store
    wsRef,              \* the WebSocket wsRef.current points to (line 58)
    orphans,            \* WebSockets connect created that wsRef.current no
                        \* longer points to and that have not closed yet
    timers,             \* pending setTimeout callbacks of onclose (line 210)
    timerRef,           \* reconnectTimeoutRef.current (line 59)
    hbRef,              \* heartbeatIntervalRef.current holds a live interval
    hbLeaked,           \* some live interval is held by no reference any more
    messageQueue,       \* messageQueueRef.current (line 61)
    effectPending,      \* the mount effect must re-run (connect changed)
    sent,               \* history: messages handed to an OPEN transport
    submitted,          \* history: number of sendMessage calls so far
    closures,           \* history: abnormal closures since the last open
    shutdown,           \* history: disconnect() calls since the last connect()
    recording,          \* whether closures, shutdown and the sockets' rc are
                        \* recorded (fixed by the specification)
    alerts,             \* store.alerts
    unreadAlerts,       \* store.unreadAlerts
    alertsAdded,        \* history: number of addAlert calls
    trades,             \* store.trades
    tradesAdded,        \* history: number of addTrade calls
    performance,        \* store.performance (four of its fields)
    dashboard,          \* store.positions, signals (for the five fields a
                        \* bulk update replaces) and lastUpdate
    soundEnabled,       \* store.soundEnabled
    dashboardLayout,    \* store.dashboardLayout
    storage,            \* localStorage: the text stored under each key
    effects,            \* history: the effects of the inbound frames, in
                        \* the order they took place
    pending,            \* onmessage handlers suspended at an await
    received            \* history: number of inbound frames that leave a trace

hookVars == <<reconnectCount, isConnected, wsRef, orphans, timers, timerRef,
              hbRef, hbLeaked, messageQueue, effectPending, sent, submitted,
              closures, shutdown, recording>>
alertVars == <<alerts, unreadAlerts, alertsAdded>>
tradeVars == <<trades, tradesAdded>>
perfVars == <<performance, dashboard>>
prefVars == <<soundEnabled, dashboardLayout, storage>>
inboundVars == <<effects, pending, received>>
vars == <<hookVars, alertVars, tradeVars, perfVars, prefVars, inboundVars>>

---------------------------------------------------------------------------
(* Bounds of the model *)

MaxSessions == 2        \* WebSocket objects in existence at the same time
MaxReconnectCount == 2  \* largest reconnectCount (reconnect timers fired)
MaxTimers == 1          \* reconnect timers pending at the same time
MaxMessages == 2        \* sendMessage calls
MaxClosures == 2        \* consecutive abnormal closures counted
MaxAlertOps == 5        \* addAlert calls in the store specification
MaxAlertId == 2         \* distinct alert ids on the wire
MaxTrades == 1002       \* addTrade calls
MaxAlerts == 102        \* addAlert calls on a list that is never read
MaxLayoutItems == 2     \* grid items of a dashboard layout
MaxFrames == 2          \* inbound frames that leave a trace

(* Program constants *)

BaseDelay == 1000       \* 1000 * Math.pow(2, reconnectCount)
MaxDelay == 30000       \* Math.min(..., 30000)
NormalClosure == 1000   \* event.code !== 1000
GoingAway == 1001       \* event.code !== 1001
AbnormalClosure == 1006 \* the code of a close event without a Close frame
TradeSlice == 999       \* state.trades.slice(0, 999)
AlertSlice == 99        \* state.alerts.slice(0, 99)
TradeCapacity == 1000   \* "Keep last 1000 trades"
AlertCapacity == 100    \* "Keep last 100 alerts"

NoTimer == -1           \* reconnectTimeoutRef.current holds no pending timer
UndefinedId == 0        \* alert.id === undefined

Counts == 0..MaxReconnectCount

Min(a, b) == IF a < b THEN a ELSE b
Max(a, b) == IF a > b THEN a ELSE b
Range(s) == {s[i] : i \in 1..Len(s)}

RECURSIVE Pow2(_)
Pow2(n) == IF n = 0 THEN 1 ELSE 2 * Pow2(n - 1)

(* line 206: Math.min(1000 * Math.pow(2, reconnectCount), 30000) *)
Backoff(n) == Min(BaseDelay * Pow2(n), MaxDelay)

---------------------------------------------------------------------------
(* WebSocket objects.  rc is the reconnectCount the callbacks of the       *)
(* socket closed over; est tells whether the connection was established    *)
(* (which decides the code of the close event after close()).  A CLOSED    *)
(* socket raises no further event, so its rc and est are dropped.          *)

Socket(state, cap, est) == [readyState |-> state, rc |-> cap, est |-> est]

(* The reconnectCount a closure captured decides only the delay of the     *)
(* timer its onclose sets (line 206), and no transition depends on a       *)
(* delay: a specification that does not record it keeps 0 in its place.    *)
Captured(rec, cap) == IF rec THEN cap ELSE 0
NullSocket == Socket("NULL", 0, FALSE)      \* wsRef.current === null
ClosedSocket == Socket("CLOSED", 0, FALSE)

(* The sockets that can still raise an event *)
SocketKinds ==
    {Socket("CONNECTING", c, FALSE) : c \in Counts}
        \cup {Socket("OPEN", c, TRUE) : c \in Counts}
        \cup {Socket("CLOSING", c, e) : c \in Counts, e \in BOOLEAN}

EmptyBag == [k \in SocketKinds |-> 0]
BagAdd(b, k) == [b EXCEPT ![k] = @ + 1]
BagRemove(b, k) == [b EXCEPT ![k] = @ - 1]

(* The sum of f over S, where no f[x] exceeds n *)
BagSize(f, S, n) == Cardinality({p \in S \X (1..n) : p[2] <= f[p[1]]})

(* The number of pending reconnect timers *)
TotalTimers(tm) == BagSize(tm, Counts, MaxTimers)

(* The sockets in existence that can still raise an event *)
SocketCount(ref, orph) ==
    (IF ref \in SocketKinds THEN 1 ELSE 0) + BagSize(orph, SocketKinds, MaxSessions)

(* The sockets that are OPEN *)
OpenKinds == {k \in SocketKinds : k.readyState = "OPEN"}
OpenCount(ref, orph) ==
    (IF ref \in OpenKinds THEN 1 ELSE 0) + BagSize(orph, OpenKinds, MaxSessions)

(* The sockets that are CONNECTING *)
ConnectingKinds == {k \in SocketKinds : k.readyState = "CONNECTING"}
ConnectingCount(ref, orph) ==
    (IF ref \in ConnectingKinds THEN 1 ELSE 0) + BagSize(orph, ConnectingKinds, MaxSessions)

(* The sockets whose connection was established *)
EstablishedKinds == {k \in SocketKinds : k.est}
EstablishedCount(ref, orph) ==
    (IF ref \in EstablishedKinds THEN 1 ELSE 0) + BagSize(orph, EstablishedKinds, MaxSessions)

(* The sockets that are CONNECTING or OPEN *)
LiveKinds == {k \in SocketKinds : k.readyState \in {"CONNECTING", "OPEN"}}
LiveCount(ref, orph) ==
    (IF ref \in LiveKinds THEN 1 ELSE 0) + BagSize(orph, LiveKinds, MaxSessions)

---------------------------------------------------------------------------
(* The hook's state as one record, so that the calls a handler makes can   *)
(* be applied one after the other.  ok = FALSE: a bound of the model was   *)
(* exceeded; thrown = TRUE: the handler was left by an exception.          *)

Cur ==
    [rc |-> reconnectCount, conn |-> isConnected, ref |-> wsRef,
     orph |-> orphans, timers |-> timers, tref |-> timerRef, hb |-> hbRef,
     leaked |-> hbLeaked, q |-> messageQueue, sent |-> sent,
     closures |-> closures, rec |-> recording, ok |-> TRUE, thrown |-> FALSE]

(* wsRef.current?.readyState *)
RefState(s) == s.ref.readyState

(* wsRef.current is overwritten: the socket it pointed to lives on as an   *)
(* orphan unless it is CLOSED (or there was none).                         *)
Orphaned(s) ==
    IF s.ref \in SocketKinds THEN BagAdd(s.orph, s.ref) ELSE s.orph

(* line 96: wsRef.current = new WebSocket(socketUrl), whose callbacks      *)
(* (lines 98-220) close over reconnectCount = cap.  The socket starts      *)
(* CONNECTING; the socket wsRef.current pointed to before is not closed.   *)
NewSocket(s, cap) ==
    IF SocketCount(s.ref, s.orph) < MaxSessions
    THEN [s EXCEPT !.orph = Orphaned(s),
                   !.ref = Socket("CONNECTING", Captured(s.rec, cap), FALSE)]
    ELSE [s EXCEPT !.ok = FALSE]

(* lines 86-226: connect, as built by the render whose reconnectCount is   *)
(* cap: a no-op only when wsRef.current is OPEN.                           *)
Connect(s, cap) ==
    IF RefState(s) = "OPEN" THEN s ELSE NewSocket(s, cap)

(* WebSocket.close(1000, ...): a CONNECTING or OPEN socket starts closing; *)
(* on a CLOSING or CLOSED socket the call does nothing.                    *)
CloseSocket(sock) ==
    IF sock.readyState \in {"CONNECTING", "OPEN"}
    THEN [sock EXCEPT !.readyState = "CLOSING"]
    ELSE sock

(* lines 229-232 *)
ClearReconnectTimer(s) ==
    IF s.tref # NoTimer
    THEN [s EXCEPT !.timers[s.tref] = @ - 1, !.tref = NoTimer]
    ELSE s

(* lines 234-237 *)
ClearHeartbeat(s) == [s EXCEPT !.hb = FALSE]

(* lines 239-242 *)
CloseCurrent(s) ==
    IF s.ref # NullSocket
    THEN LET c == [s EXCEPT !.ref = CloseSocket(@)]
         IN  [c EXCEPT !.orph = Orphaned(c), !.ref = NullSocket]
    ELSE s

(* lines 228-246: disconnect *)
Disconnect(s) ==
    [CloseCurrent(ClearHeartbeat(ClearReconnectTimer(s))) EXCEPT !.conn = FALSE]

(* lines 107-111: the queue drain of onopen.  shift() removes the head     *)
(* before wsRef.current.send is called.  send throws InvalidStateError on  *)
(* a CONNECTING socket, the call throws TypeError when wsRef.current is    *)
(* null, and send discards the data silently on a CLOSING or CLOSED socket.*)
RECURSIVE Drain(_)
Drain(s) ==
    IF s.q = <<>> THEN s
    ELSE LET m == Head(s.q)
             s1 == [s EXCEPT !.q = Tail(s.q)]
         IN  CASE RefState(s1) \in {"NULL", "CONNECTING"} -> [s1 EXCEPT !.thrown = TRUE]
               [] RefState(s1) = "OPEN" -> Drain([s1 EXCEPT !.sent = Append(@, m)])
               [] OTHER -> Drain(s1)

(* lines 113-118: heartbeatIntervalRef.current = setInterval(...).  An     *)
(* interval the reference held before is not cleared.                      *)
StartHeartbeat(s) ==
    IF s.hb THEN [s EXCEPT !.leaked = TRUE] ELSE [s EXCEPT !.hb = TRUE]

(* A reconnect branch that gives up after the first attempt *)
ScheduleReconnectOnce(s, cap) ==
    IF s.rc >= 1 THEN s
    ELSE IF TotalTimers(s.timers) < MaxTimers
    THEN [s EXCEPT !.timers[cap] = @ + 1, !.tref = cap,
                   !.closures = IF s.rec THEN Min(@ + 1, MaxClosures) ELSE @]
    ELSE [s EXCEPT !.ok = FALSE]

(* lines 204-214: the reconnect branch of onclose, for a socket whose      *)
(* callbacks closed over reconnectCount = cap: a timer with the delay      *)
(* Backoff(cap), whose callback calls the connect of that closure.  The    *)
(* timer the reference held before is not cleared.                         *)
ScheduleReconnect(s, cap) ==
    IF TotalTimers(s.timers) < MaxTimers
    THEN [s EXCEPT !.timers[cap] = @ + 1, !.tref = cap,
                   !.closures = IF s.rec THEN Min(@ + 1, MaxClosures) ELSE @]
    ELSE [s EXCEPT !.ok = FALSE]

(* The close codes a close event of socket sock can carry: a CONNECTING    *)
(* socket fails (1006); an OPEN socket is closed by the server (1000,      *)
(* 1001) or lost (1006); a socket closed by close() ends with 1000 when    *)
(* the closing handshake completes, which it cannot before the connection  *)
(* was established, and with 1006 otherwise.                               *)
CloseCodes(sock) ==
    CASE sock.readyState = "CONNECTING" -> {AbnormalClosure}
      [] sock.readyState = "OPEN" -> {NormalClosure, GoingAway, AbnormalClosure}
      [] sock.readyState = "CLOSING" ->
            IF sock.est THEN {NormalClosure, AbnormalClosure} ELSE {AbnormalClosure}
      [] OTHER -> {}

(* All the variables of the hook that record s holds. *)
Install(s) ==
    /\ s.ok
    /\ reconnectCount' = s.rc
    /\ isConnected' = s.conn
    /\ wsRef' = s.ref
    /\ orphans' = s.orph
    /\ timers' = s.timers
    /\ timerRef' = s.tref
    /\ hbRef' = s.hb
    /\ hbLeaked' = s.leaked
    /\ messageQueue' = s.q
    /\ sent' = s.sent
    /\ closures' = s.closures
    /\ UNCHANGED recording

---------------------------------------------------------------------------
(* The dashboard store *)

(* An alert as addAlert receives it from onmessage (data.data): the wire   *)
(* format carries no read field, so alert.read is falsy (FALSE), and an id *)
(* only if the server put one (UndefinedId otherwise).  n tells the        *)
(* ingested alerts apart; it is the number of the addAlert call.           *)
WireAlert(id, n) == [id |-> id, read |-> FALSE, n |-> n]

(* Array.prototype.slice(0, k) *)
Slice(s, k) == SubSeq(s, 1, Min(k, Len(s)))

(* addAlert without the cut *)
AddAlertUnbounded(st, alert) ==
    [alerts |-> <<alert>> \o st.alerts,
     unread |-> st.unread + 1]

(* lines 372-377: addAlert *)
AddAlert(st, alert) ==
    [alerts |-> <<alert>> \o Slice(st.alerts, AlertSlice),
     unread |-> st.unread + 1]

(* lines 379-386: markAlertRead *)
MarkAlertRead(st, alertId) ==
    [alerts |-> [i \in 1..Len(st.alerts) |->
                    IF st.alerts[i].id = alertId
                    THEN [st.alerts[i] EXCEPT !.read = TRUE]
                    ELSE st.alerts[i]],
     unread |-> Max(0, st.unread - 1)]

(* lines 388-390: clearAllAlerts *)
ClearAllAlerts(st) == [alerts |-> <<>>, unread |-> 0]

(* AlertsPanel.js line 366: alerts.filter(a => !a.read).forEach(a =>       *)
(* markAlertRead(a.id)), over the list as it was rendered (ids).           *)
RECURSIVE MarkEach(_, _)
MarkEach(st, ids) ==
    IF ids = <<>> THEN st ELSE MarkEach(MarkAlertRead(st, Head(ids)), Tail(ids))

UnreadIds(al) ==
    LET F[i \in 0..Len(al)] ==
            IF i = 0 THEN <<>>
            ELSE IF ~al[i].read THEN Append(F[i - 1], al[i].id) ELSE F[i - 1]
    IN  F[Len(al)]

(* addTrade without the slice *)
AddTradeUnbounded(tr, trade) == <<trade>> \o tr

(* lines 366-370: addTrade *)
AddTrade(tr, trade) == <<trade>> \o Slice(tr, TradeSlice)

(* lines 286-309: the initial performance; four of its fields stand for   *)
(* all of them.                                                            *)
PerfKeys == {"margin_level", "current_drawdown", "balance", "total_pnl"}
InitialPerformance ==
    [margin_level |-> 100, current_drawdown |-> 0, balance |-> 10000,
     total_pnl |-> 0]

(* The values a frame can give to a field: the ones around the thresholds  *)
(* of lines 466-467.                                                       *)
PerfValues(k) ==
    CASE k = "margin_level" -> {100, 149, 150, 151, 299, 300}
      [] k = "current_drawdown" -> {0, 10, 11, 15, 16}
      [] k = "balance" -> {10000, 9500}
      [] k = "total_pnl" -> {0, -25}

(* The performance objects of a payload: any fields, any of them missing *)
PartialPerformances ==
    UNION {{f \in [S -> UNION {PerfValues(k) : k \in PerfKeys}] :
                \A k \in S : f[k] \in PerfValues(k)} : S \in SUBSET PerfKeys}

EmptyObject == [k \in {} |-> 0]

(* data of a dashboard_update frame (data.data): undefined, or an object   *)
(* whose performance is undefined or an object.                            *)
(* lines 278-281, 310-315: the fields a bulk update replaces as a whole;  *)
(* positions and signals stand for the five of them.                       *)
ListKeys == {"positions", "signals"}
ListValues == {<<>>, <<"ETH/USDT">>}
NoTimestamp == 0        \* lastUpdate: null
Timestamps == {1, 2}
InitialDashboard ==
    [positions |-> <<>>, signals |-> <<>>, lastUpdate |-> NoTimestamp]

(* The lists of a payload: any of the fields, any of them missing *)
PartialLists == UNION {[S -> ListValues] : S \in SUBSET ListKeys}

UndefinedData ==
    [defined |-> FALSE, hasPerformance |-> FALSE, performance |-> EmptyObject,
     lists |-> EmptyObject, timestamp |-> NoTimestamp]

Update(hasPerformance, perf, lists, timestamp) ==
    [defined |-> TRUE, hasPerformance |-> hasPerformance, performance |-> perf,
     lists |-> lists, timestamp |-> timestamp]

UpdateData ==
    {UndefinedData}
        \cup {Update(FALSE, EmptyObject, ls, t) : ls \in PartialLists, t \in Timestamps}
        \cup {Update(TRUE, f, EmptyObject, 1) : f \in PartialPerformances}
        \cup {Update(TRUE, f, ls, 2) :
                f \in {g \in PartialPerformances : DOMAIN g = {"balance"}},
                ls \in PartialLists}

(* { ...a, ...b } with the fields of b written over those of a *)
SpreadReset(a, b) ==
    [k \in DOMAIN InitialPerformance \cup DOMAIN b |->
        IF k \in DOMAIN b THEN b[k] ELSE InitialPerformance[k]]

(* { ...a, ...b }: object spread *)
Spread(a, b) ==
    [k \in DOMAIN a \cup DOMAIN b |-> IF k \in DOMAIN b THEN b[k] ELSE a[k]]

(* lines 344-348: updatePerformance(performance); spreading undefined adds *)
(* no field.                                                               *)
UpdatePerformance(perf, data) ==
    Spread(perf, IF data.hasPerformance THEN data.performance ELSE EmptyObject)

(* lines 423-433: handleDashboardUpdate(data).  With data undefined the    *)
(* updater throws at data.positions and the store keeps its state.         *)
HandleDashboardUpdate(perf, data) ==
    IF ~data.defined THEN perf
    ELSE Spread(perf, IF data.hasPerformance THEN data.performance ELSE EmptyObject)

(* A bulk update that empties the lists it does not carry *)
HandleDashboardListsReset(dash, data) ==
    IF ~data.defined THEN dash
    ELSE [k \in DOMAIN dash |->
            IF k = "lastUpdate" THEN data.timestamp
            ELSE IF k \in DOMAIN data.lists THEN data.lists[k] ELSE <<>>]

(* lines 423-433: handleDashboardUpdate(data), the fields other than       *)
(* performance: data.positions || state.positions and the like, and        *)
(* lastUpdate: data.timestamp.  An array is truthy, the empty one too.     *)
HandleDashboardLists(dash, data) ==
    IF ~data.defined THEN dash
    ELSE [k \in DOMAIN dash |->
            IF k = "lastUpdate" THEN data.timestamp
            ELSE IF k \in DOMAIN data.lists THEN data.lists[k] ELSE dash[k]]

(* The selector with the thresholds included *)
GetRiskLevelInclusive(perf) ==
    LET marginLevel == perf.margin_level
        drawdown == perf.current_drawdown
    IN  IF marginLevel <= 150 \/ drawdown >= 15 THEN "high"
        ELSE IF marginLevel <= 300 \/ drawdown >= 10 THEN "medium"
        ELSE "low"

(* lines 461-469: getRiskLevel *)
GetRiskLevel(perf) ==
    LET marginLevel == perf.margin_level
        drawdown == perf.current_drawdown
    IN  IF marginLevel < 150 \/ drawdown > 15 THEN "high"
        ELSE IF marginLevel < 300 \/ drawdown > 10 THEN "medium"
        ELSE "low"

(* lines 546-555: useRiskLevel *)
UseRiskLevel(perf) ==
    LET marginLevel == perf.margin_level
        drawdown == perf.current_drawdown
    IN  IF marginLevel < 150 \/ drawdown > 15 THEN "high"
        ELSE IF marginLevel < 300 \/ drawdown > 10 THEN "medium"
        ELSE "low"

(* The values the preferences take: a boolean, null, or an array of grid  *)
(* items {i, w}.                                                           *)
JsBool(b) == [kind |-> "bool", b |-> b, items |-> <<>>]
NullLayout == [kind |-> "null", b |-> FALSE, items |-> <<>>]
JsArray(items) == [kind |-> "array", b |-> FALSE, items |-> items]

LayoutNames == {"chart", "alerts"}
LayoutWidths == 1..3
LayoutItems == [i : LayoutNames, w : LayoutWidths]
Layouts ==
    {NullLayout}
        \cup {JsArray(s) : s \in UNION {[1..n -> LayoutItems] : n \in 0..MaxLayoutItems}}

(* JSON text as its sequence of tokens *)
Punct(s) == [tok |-> "punct", v |-> s]
Str(s) == [tok |-> "str", v |-> s]
Num(n) == [tok |-> "num", v |-> ToString(n)]
Lit(s) == [tok |-> "lit", v |-> s]

StringifyItem(it) ==
    <<Punct("{"), Str("i"), Punct(":"), Str(it.i), Punct(","),
      Str("w"), Punct(":"), Num(it.w), Punct("}")>>

RECURSIVE StringifyItems(_)
StringifyItems(items) ==
    IF items = <<>> THEN <<>>
    ELSE IF Len(items) = 1 THEN StringifyItem(items[1])
    ELSE StringifyItem(items[1]) \o <<Punct(",")>> \o StringifyItems(Tail(items))

(* JSON.stringify *)
Stringify(v) ==
    CASE v.kind = "bool" -> <<Lit(IF v.b THEN "true" ELSE "false")>>
      [] v.kind = "null" -> <<Lit("null")>>
      [] v.kind = "array" ->
            <<Punct("[")>> \o StringifyItems(v.items) \o <<Punct("]")>>

ParseNumber(s) == CHOOSE n \in 0..9 : ToString(n) = s

ItemTokens == Len(StringifyItem([i |-> "chart", w |-> 1]))

ParseItem(toks) == [i |-> toks[4].v, w |-> ParseNumber(toks[8].v)]

RECURSIVE ParseItems(_)
ParseItems(toks) ==
    IF toks = <<>> THEN <<>>
    ELSE LET rest == SubSeq(toks, ItemTokens + 1, Len(toks))
         IN  <<ParseItem(SubSeq(toks, 1, ItemTokens))>>
                \o ParseItems(IF rest # <<>> /\ Head(rest) = Punct(",")
                              THEN Tail(rest) ELSE rest)

(* JSON.parse, of the texts JSON.stringify writes *)
Parse(text) ==
    IF text = <<Lit("true")>> THEN JsBool(TRUE)
    ELSE IF text = <<Lit("false")>> THEN JsBool(FALSE)
    ELSE IF text = <<Lit("null")>> THEN NullLayout
    ELSE JsArray(ParseItems(SubSeq(text, 2, Len(text) - 1)))

(* localStorage: the text under each key; getItem of a key never written  *)
(* gives null, modelled by the empty text.                                 *)
StorageKeys == {"soundEnabled", "dashboardLayout"}
NoItem == <<>>
EmptyStorage == [k \in StorageKeys |-> NoItem]

(* A test that also wants the parsed value to be truthy *)
TruthyParsed(text) ==
    /\ text # NoItem
    /\ Parse(text) \notin {JsBool(FALSE), NullLayout}

(* if (saved), if (soundEnabled): a string is truthy unless empty, and     *)
(* JSON.stringify writes no empty string.                                  *)
Truthy(text) == text # NoItem

Preferences == [sound |-> soundEnabled, layout |-> dashboardLayout, storage |-> storage]

(* lines 417-420: setSoundEnabled(enabled) *)
SetSoundEnabled(st, enabled) ==
    [st EXCEPT !.sound = enabled,
               !.storage = [@ EXCEPT !["soundEnabled"] = Stringify(JsBool(enabled))]]

(* lines 400-404: setDashboardLayout(layout) *)
SetDashboardLayout(st, layout) ==
    [st EXCEPT !.layout = layout,
               !.storage = [@ EXCEPT !["dashboardLayout"] = Stringify(layout)]]

(* lines 406-411: loadDashboardLayout() *)
LoadDashboardLayout(st) ==
    LET saved == st.storage["dashboardLayout"]
    IN  IF Truthy(saved) THEN [st EXCEPT !.layout = Parse(saved)] ELSE st

(* lines 502-513: init() *)
InitStore(st) ==
    LET saved == st.storage["soundEnabled"]
    IN  LoadDashboardLayout(
            IF Truthy(saved) THEN [st EXCEPT !.sound = Parse(saved).b] ELSE st)

(* lines 268-326 and 558: the store as the module creates it over the      *)
(* storage the browser kept, and init() run on it.                         *)
LoadedStore(kept) ==
    InitStore([sound |-> TRUE, layout |-> NullLayout, storage |-> kept])

InstallPreferences(st) ==
    /\ soundEnabled' = st.sound
    /\ dashboardLayout' = st.layout
    /\ storage' = st.storage

AlertStore == [alerts |-> alerts, unread |-> unreadAlerts]

InstallAlerts(st) ==
    /\ alerts' = st.alerts
    /\ unreadAlerts' = st.unread

---------------------------------------------------------------------------
(* The state after the first render and its mount effect (lines 278-279):  *)
(* connect() has created the first socket.                                 *)

Mounted(rec) ==
    /\ reconnectCount = 0
    /\ isConnected = FALSE
    /\ wsRef = Socket("CONNECTING", 0, FALSE)
    /\ orphans = EmptyBag
    /\ timers = [c \in Counts |-> 0]
    /\ timerRef = NoTimer
    /\ hbRef = FALSE
    /\ hbLeaked = FALSE
    /\ messageQueue = <<>>
    /\ effectPending = FALSE
    /\ sent = <<>>
    /\ submitted = 0
    /\ closures = 0
    /\ shutdown = 0
    /\ recording = rec
    /\ alerts = <<>>
    /\ unreadAlerts = 0
    /\ alertsAdded = 0
    /\ trades = <<>>
    /\ tradesAdded = 0
    /\ performance = InitialPerformance
    /\ dashboard = InitialDashboard
    /\ soundEnabled = TRUE
    /\ dashboardLayout = NullLayout
    /\ storage = EmptyStorage
    /\ effects = <<>>
    /\ pending = {}
    /\ received = 0

Init == Mounted(TRUE)

InitCore == Mounted(FALSE)

---------------------------------------------------------------------------
(* The hook's operations and event handlers.  An event of a socket is      *)
(* named by the socket (k) and by whether wsRef.current points to it       *)
(* (isRef) or it is an orphan.                                             *)

Exists(k, isRef) == IF isRef THEN wsRef = k ELSE orphans[k] > 0

(* The socket k changes to k2 (or is gone: k2 = ClosedSocket). *)
Becomes(s, k, isRef, k2) ==
    IF isRef THEN [s EXCEPT !.ref = k2]
    ELSE IF k2 \in SocketKinds
         THEN [s EXCEPT !.orph = BagAdd(BagRemove(@, k), k2)]
         ELSE [s EXCEPT !.orph = BagRemove(@, k)]

(* The caller invokes the connect the hook returned (line 330). *)
CallConnect ==
    /\ ~effectPending
    /\ \E r \in {Connect(Cur, reconnectCount)} : Install(r)
    /\ shutdown' = 0
    /\ UNCHANGED <<effectPending, submitted, alertVars, tradeVars, perfVars, prefVars, inboundVars>>

(* lines 288-293: handleVisibilityChange, the page became visible *)
HandleVisibilityChange ==
    /\ ~effectPending
    /\ ~isConnected
    /\ \E r \in {Connect(Cur, reconnectCount)} : Install(r)
    /\ shutdown' = 0
    /\ UNCHANGED <<effectPending, submitted, alertVars, tradeVars, perfVars, prefVars, inboundVars>>

(* lines 303-307: handleOnline *)
HandleOnline ==
    /\ ~effectPending
    /\ ~isConnected
    /\ \E r \in {Connect(Cur, reconnectCount)} : Install(r)
    /\ shutdown' = 0
    /\ UNCHANGED <<effectPending, submitted, alertVars, tradeVars, perfVars, prefVars, inboundVars>>

(* The caller invokes the disconnect the hook returned (line 331). *)
CallDisconnect ==
    /\ ~effectPending
    /\ \E r \in {Disconnect(Cur)} : Install(r)
    /\ shutdown' = IF recording THEN Min(shutdown + 1, 2) ELSE shutdown
    /\ UNCHANGED <<effectPending, submitted, alertVars, tradeVars, perfVars, prefVars, inboundVars>>

(* lines 248-255: sendMessage (and subscribe, sendCommand, lines 258-265). *)
(* The message is named by its submission number.                          *)
TransmitUnshift(s, m) ==
    IF RefState(s) = "OPEN"
    THEN [s EXCEPT !.sent = Append(@, m)]
    ELSE [s EXCEPT !.q = <<m>> \o @]

(* A sendMessage that also keeps the message it sent *)
TransmitAndKeep(s, m) ==
    IF RefState(s) = "OPEN"
    THEN [s EXCEPT !.sent = Append(@, m), !.q = Append(@, m)]
    ELSE [s EXCEPT !.q = Append(@, m)]

Transmit(s, m) ==
    IF RefState(s) = "OPEN"
    THEN [s EXCEPT !.sent = Append(@, m)]
    ELSE [s EXCEPT !.q = Append(@, m)]

SendMessage ==
    /\ ~effectPending
    /\ submitted < MaxMessages
    /\ submitted' = submitted + 1
    /\ \E r \in {Transmit(Cur, submitted + 1)} : Install(r)
    /\ UNCHANGED <<effectPending, shutdown, alertVars, tradeVars, perfVars, prefVars, inboundVars>>

(* lines 98-121: onopen.  The state updates of lines 100-102 are applied   *)
(* even when the drain throws; the heartbeat of lines 114-118 is started   *)
(* only when it does not.                                                  *)
OpenHandler(s) ==
    LET s1 == Drain(s)
        s2 == IF s1.thrown THEN s1 ELSE StartHeartbeat(s1)
    IN  [s2 EXCEPT !.conn = TRUE, !.rc = 0, !.closures = 0]

OnOpen(k, isRef) ==
    /\ ~effectPending
    /\ k.readyState = "CONNECTING"
    /\ Exists(k, isRef)
    /\ \E r \in {OpenHandler(Becomes(Cur, k, isRef, Socket("OPEN", k.rc, TRUE)))} : Install(r)
    /\ effectPending' = (reconnectCount # 0)
    /\ UNCHANGED <<submitted, shutdown, alertVars, tradeVars, perfVars, prefVars, inboundVars>>

(* lines 193-215: onclose with event.code = code, of a socket whose        *)
(* callbacks closed over reconnectCount = cap                              *)
AbnormalOrGoingAway(code) == code # NormalClosure

Abnormal(code) == code # NormalClosure /\ code # GoingAway

CloseHandler(s, cap, code) ==
    LET s1 == [ClearHeartbeat(s) EXCEPT !.conn = FALSE]
    IN  IF Abnormal(code) THEN ScheduleReconnect(s1, cap) ELSE s1

OnClose(k, isRef, code) ==
    /\ ~effectPending
    /\ Exists(k, isRef)
    /\ code \in CloseCodes(k)
    /\ \E r \in {CloseHandler(Becomes(Cur, k, isRef, ClosedSocket), k.rc, code)} : Install(r)
    /\ UNCHANGED <<effectPending, submitted, shutdown, alertVars, tradeVars, perfVars, prefVars, inboundVars>>

(* lines 210-213: the reconnect timer's callback, set by a socket whose    *)
(* callbacks closed over reconnectCount = cap: setReconnectCount(prev =>   *)
(* prev + 1), then the connect of that closure.  viaRef: the timer that    *)
(* fires is the one reconnectTimeoutRef.current holds.                     *)
TimerHandler(s, cap, viaRef) ==
    LET s0 == [s EXCEPT !.timers[cap] = @ - 1,
                        !.tref = IF viaRef THEN NoTimer ELSE @]
    IN  [Connect(s0, cap) EXCEPT !.rc = @ + 1]

ReconnectTimerFire(cap, viaRef) ==
    /\ ~effectPending
    /\ reconnectCount < MaxReconnectCount
    /\ IF viaRef THEN timerRef = cap
       ELSE timers[cap] > (IF timerRef = cap THEN 1 ELSE 0)
    /\ \E r \in {TimerHandler(Cur, cap, viaRef)} : Install(r)
    /\ effectPending' = TRUE
    /\ UNCHANGED <<submitted, shutdown, alertVars, tradeVars, perfVars, prefVars, inboundVars>>

(* lines 278-284: the mount effect re-runs because connect changed:        *)
(* cleanup disconnect(), then connect() of the current render.             *)
RunEffects ==
    /\ effectPending
    /\ \E r \in {Connect(Disconnect(Cur), reconnectCount)} : Install(r)
    /\ effectPending' = FALSE
    /\ UNCHANGED <<submitted, shutdown, alertVars, tradeVars, perfVars, prefVars, inboundVars>>

(* lines 123-191: onmessage.  Frames are delivered only while the socket   *)
(* is OPEN.  An inbound frame is named by what                             *)
(* JSON.parse makes of it (malformed: it throws; null: the text "null";    *)
(* untyped: an object without type; unknown: a type no case handles; else  *)
(* the type), with the id of the alert and the data of the bulk update it  *)
(* carries.                                                                *)
FrameKinds ==
    {"malformed", "null", "untyped", "unknown", "dashboard_update", "alert",
     "position_update", "trade_executed", "pong", "error"}

Frame(kind, id, data) == [kind |-> kind, id |-> id, data |-> data]

PongFrame == Frame("pong", UndefinedId, UndefinedData)

InboundUpdates ==
    {UndefinedData,
     Update(FALSE, EmptyObject, [f \in {"signals"} |-> <<"ETH/USDT">>], 1),
     Update(TRUE, [f \in {"current_drawdown"} |-> 16],
            [f \in {"positions"} |-> <<"ETH/USDT">>], 2)}

(* data.data of an alert frame: the alert as the server sends it, without *)
(* id and read field.                                                      *)
AlertMessages == {"BUY ETH/USDT", "Margin level low"}
AlertPayload(message) == [type |-> "signal", priority |-> "high", message |-> message]

Frames ==
    {Frame(kind, UndefinedId, UndefinedData) :
        kind \in FrameKinds \ {"dashboard_update", "alert"}}
        \cup {Frame("dashboard_update", UndefinedId, data) : data \in InboundUpdates}
        \cup {Frame("alert", UndefinedId, AlertPayload(m)) : m \in AlertMessages}

(* The frames whose handling can be observed: position_update and pong     *)
(* run an empty case.                                                      *)
Traced(frame) == frame.kind \notin {"position_update", "pong"}

(* What the handler works on: the hook, the store, the handlers waiting at *)
(* an await, and the trace of what the handlers did.                       *)
Inbound ==
    [hook |-> Cur, alerts |-> alerts, unread |-> unreadAlerts,
     added |-> alertsAdded, trades |-> trades, perf |-> performance,
     dash |-> dashboard,
     sound |-> soundEnabled, effects |-> effects, pending |-> pending,
     received |-> received, thrown |-> FALSE, audio |-> "plays"]

(* What becomes of a playback: the beep plays, or the audio engine throws  *)
(* (audioContext.resume() rejects, createOscillator throws).               *)
AudioOutcomes == {"plays", "fails"}

Effect(n, kind, what) == [n |-> n, kind |-> kind, what |-> what]

Trace(st, n, kind, what) ==
    [st EXCEPT !.effects = Append(@, Effect(n, kind, what))]

(* lines 70-84: playAlertSound.  With the sound on, the beep of lines      *)
(* 16-34 resolves from a setTimeout of 100 ms or more, and the handler     *)
(* that awaits it stays suspended until then.  A playback that throws is   *)
(* caught with console.warn (lines 81-83) and the handler runs on.         *)
(* A playAlertSound that does not look at the preference *)
PlayAlertSoundAlways(st, n, kind) ==
    IF st.audio = "fails" THEN Trace(st, n, kind, "warn")
    ELSE [Trace(st, n, kind, "sound") EXCEPT
            !.pending = @ \cup {[n |-> n, kind |-> kind]}]

PlayAlertSound(st, n, kind) ==
    IF ~st.sound THEN st
    ELSE IF st.audio = "fails" THEN Trace(st, n, kind, "warn")
    ELSE [Trace(st, n, kind, "sound") EXCEPT
            !.pending = @ \cup {[n |-> n, kind |-> kind]}]

(* The part of the handler after the await: the toast of an alert (lines   *)
(* 149-163); nothing for trade_executed and error.                         *)
AfterSound(st, n, kind) ==
    IF kind = "alert" THEN Trace(st, n, kind, "toast") ELSE st

(* The handler up to its end, or to the await at which it is suspended *)
Sound(st, n, kind) ==
    LET s1 == PlayAlertSound(st, n, kind)
    IN  IF s1.pending # st.pending THEN s1 ELSE AfterSound(s1, n, kind)

(* lines 125-186: the body of the try block *)
HandlerBody(st, frame) ==
    LET n == st.received
        kind == frame.kind
    IN  CASE kind \in {"malformed", "null"} -> [st EXCEPT !.thrown = TRUE]
          [] kind = "dashboard_update" ->
                IF ~frame.data.defined THEN [st EXCEPT !.thrown = TRUE]
                ELSE [Trace(st, n, kind, "store") EXCEPT
                        !.perf = HandleDashboardUpdate(@, frame.data),
                        !.dash = HandleDashboardLists(@, frame.data)]
          [] kind = "alert" ->
                LET store == AddAlert([alerts |-> st.alerts, unread |-> st.unread],
                                      WireAlert(frame.id, st.added + 1) @@ frame.data)
                IN  Sound([Trace(st, n, kind, "store") EXCEPT
                                !.alerts = store.alerts,
                                !.unread = store.unread,
                                !.added = @ + 1],
                          n, kind)
          [] kind \in {"trade_executed", "error"} ->
                Sound(Trace(st, n, kind, "toast"), n, kind)
          [] kind \in {"position_update", "pong"} -> st
          [] OTHER -> Trace(st, n, kind, "console")

(* A handler without the catch block *)
Rethrow(st, frame) == st

(* lines 187-189: catch (error) { console.error(...) } *)
Catch(st, frame) ==
    IF st.thrown
    THEN [Trace(st, st.received, frame.kind, "console") EXCEPT !.thrown = FALSE]
    ELSE st

(* The frames are numbered as they arrive *)
Numbered(st, frame) ==
    IF Traced(frame) THEN [st EXCEPT !.received = @ + 1] ELSE st

MessageHandler(st, frame) == Catch(HandlerBody(Numbered(st, frame), frame), frame)

(* The handlers that can wait at an await: of the frames of lines 135,    *)
(* 165 and 176                                                             *)
Handlers == [n : 1..MaxFrames, kind : {"alert", "trade_executed", "error"}]

(* A suspended handler runs on when its sound has ended *)
Resume(st, p) ==
    AfterSound([st EXCEPT !.pending = @ \ {p}], p.n, p.kind)

InstallInbound(st) ==
    /\ Install(st.hook)
    /\ alerts' = st.alerts
    /\ unreadAlerts' = st.unread
    /\ alertsAdded' = st.added
    /\ trades' = st.trades
    /\ performance' = st.perf
    /\ dashboard' = st.dash
    /\ effects' = st.effects
    /\ pending' = st.pending
    /\ received' = st.received

OnMessage(k, isRef, frame) ==
    /\ ~effectPending
    /\ k.readyState = "OPEN"
    /\ Exists(k, isRef)
    /\ Traced(frame) => received < MaxFrames
    /\ frame.kind = "alert" => alertsAdded < MaxAlertOps
    /\ \E audio \in AudioOutcomes :
            \E r \in {MessageHandler([Inbound EXCEPT !.audio = audio], frame)} :
                InstallInbound(r)
    /\ UNCHANGED <<effectPending, submitted, shutdown, tradesAdded, prefVars>>

ResumeHandler(p) ==
    /\ ~effectPending
    /\ p \in pending
    /\ \E r \in {Resume(Inbound, p)} : InstallInbound(r)
    /\ UNCHANGED <<effectPending, submitted, shutdown, tradesAdded, prefVars>>

Next ==
    \/ CallConnect
    \/ HandleVisibilityChange
    \/ HandleOnline
    \/ CallDisconnect
    \/ SendMessage
    \/ \E k \in SocketKinds : \E isRef \in BOOLEAN : OnOpen(k, isRef)
    \/ \E k \in SocketKinds : \E isRef \in BOOLEAN :
            \E code \in {NormalClosure, GoingAway, AbnormalClosure} :
                OnClose(k, isRef, code)
    \/ \E cap \in Counts : \E viaRef \in BOOLEAN : ReconnectTimerFire(cap, viaRef)
    \/ RunEffects
    \/ \E k \in SocketKinds : \E isRef \in BOOLEAN :
            OnMessage(k, isRef, PongFrame)

(* The hook with its history recorded *)
Spec == Init /\ [][Next]_vars

(* The hook alone *)
SpecCore == InitCore /\ [][Next]_vars

---------------------------------------------------------------------------
(* The hook while disconnect() is not called and the endpoint accepts      *)
(* connections: the browser fires every timer and delivers the close event *)
(* of every socket that is closing, React runs the effects of a render,    *)
(* and a socket that is CONNECTING again and again is opened at last.      *)

NextRetry ==
    \/ CallConnect
    \/ HandleVisibilityChange
    \/ HandleOnline
    \/ SendMessage
    \/ \E k \in SocketKinds : \E isRef \in BOOLEAN : OnOpen(k, isRef)
    \/ \E k \in SocketKinds : \E isRef \in BOOLEAN :
            \E code \in {NormalClosure, GoingAway, AbnormalClosure} :
                OnClose(k, isRef, code)
    \/ \E cap \in Counts : \E viaRef \in BOOLEAN : ReconnectTimerFire(cap, viaRef)
    \/ RunEffects

ClosingKinds == {k \in SocketKinds : k.readyState = "CLOSING"}

Delivered ==
    /\ WF_vars(RunEffects)
    /\ SF_vars(\E cap \in Counts : \E viaRef \in BOOLEAN : ReconnectTimerFire(cap, viaRef))
    /\ SF_vars(\E k \in ClosingKinds : \E isRef \in BOOLEAN :
                    \E code \in {NormalClosure, AbnormalClosure} : OnClose(k, isRef, code))
    /\ SF_vars(\E k \in SocketKinds : \E isRef \in BOOLEAN : OnOpen(k, isRef))

SpecRetry == InitCore /\ [][NextRetry]_vars /\ Delivered

---------------------------------------------------------------------------
(* The store's alert actions, as the socket (line 135) and the alerts      *)
(* panel (AlertsPanel.js lines 219, 366, 375) call them.                   *)

AlertIds == 1..MaxAlertId \cup {UndefinedId}

IngestAlert(alertId) ==
    /\ alertsAdded < MaxAlertOps
    /\ InstallAlerts(AddAlert(AlertStore, WireAlert(alertId, alertsAdded + 1)))
    /\ alertsAdded' = alertsAdded + 1
    /\ UNCHANGED <<hookVars, tradeVars, perfVars, prefVars, inboundVars>>

(* AlertsPanel.js line 219: a click on a listed alert *)
MarkOneRead(i) ==
    /\ i \in 1..Len(alerts)
    /\ InstallAlerts(MarkAlertRead(AlertStore, alerts[i].id))
    /\ UNCHANGED <<alertsAdded, hookVars, tradeVars, perfVars, prefVars, inboundVars>>

(* AlertsPanel.js lines 362-370: the button is rendered only while an      *)
(* alert of the list is unread.                                            *)
MarkAllRead ==
    /\ UnreadIds(alerts) # <<>>
    /\ InstallAlerts(MarkEach(AlertStore, UnreadIds(alerts)))
    /\ UNCHANGED <<alertsAdded, hookVars, tradeVars, perfVars, prefVars, inboundVars>>

(* AlertsPanel.js lines 371-378, inside the same conditional block *)
ClearAll ==
    /\ UnreadIds(alerts) # <<>>
    /\ InstallAlerts(ClearAllAlerts(AlertStore))
    /\ UNCHANGED <<alertsAdded, hookVars, tradeVars, perfVars, prefVars, inboundVars>>

NextStore ==
    \/ \E alertId \in AlertIds : IngestAlert(alertId)
    \/ \E i \in 1..MaxAlertOps : MarkOneRead(i)
    \/ MarkAllRead
    \/ ClearAll

SpecStore == Init /\ [][NextStore]_vars

---------------------------------------------------------------------------
(* The trade history.  A trade is named by the number of its addTrade call. *)

RecordTrade ==
    /\ tradesAdded < MaxTrades
    /\ trades' = AddTrade(trades, tradesAdded + 1)
    /\ tradesAdded' = tradesAdded + 1
    /\ UNCHANGED <<hookVars, alertVars, perfVars, prefVars, inboundVars>>

NextTrades == RecordTrade

SpecTrades == Init /\ [][NextTrades]_vars

---------------------------------------------------------------------------
(* The alert list, filled beyond its capacity *)

RecordAlert(alertId) ==
    /\ alertsAdded < MaxAlerts
    /\ InstallAlerts(AddAlert(AlertStore, WireAlert(alertId, alertsAdded + 1)))
    /\ alertsAdded' = alertsAdded + 1
    /\ UNCHANGED <<hookVars, tradeVars, perfVars, prefVars, inboundVars>>

NextAlerts == \E alertId \in {UndefinedId} : RecordAlert(alertId)

SpecAlerts == Init /\ [][NextAlerts]_vars

---------------------------------------------------------------------------
(* The performance of the store under bulk updates *)

BulkUpdate(data) ==
    /\ performance' = HandleDashboardUpdate(performance, data)
    /\ dashboard' = HandleDashboardLists(dashboard, data)
    /\ UNCHANGED <<hookVars, alertVars, tradeVars, prefVars, inboundVars>>

PerformanceUpdate(data) ==
    /\ data.defined
    /\ performance' = UpdatePerformance(performance, data)
    /\ UNCHANGED <<dashboard, hookVars, alertVars, tradeVars, prefVars, inboundVars>>

NextPerformance ==
    \/ \E data \in UpdateData : BulkUpdate(data)
    \/ \E data \in UpdateData : PerformanceUpdate(data)

SpecPerformance == Init /\ [][NextPerformance]_vars

---------------------------------------------------------------------------
(* The persisted preferences *)

ToggleSound(enabled) ==
    /\ InstallPreferences(SetSoundEnabled(Preferences, enabled))
    /\ UNCHANGED <<hookVars, alertVars, tradeVars, perfVars, inboundVars>>

ChangeLayout(layout) ==
    /\ InstallPreferences(SetDashboardLayout(Preferences, layout))
    /\ UNCHANGED <<hookVars, alertVars, tradeVars, perfVars, inboundVars>>

(* The page is loaded again: line 558 on a new store *)
Reload ==
    /\ InstallPreferences(LoadedStore(storage))
    /\ UNCHANGED <<hookVars, alertVars, tradeVars, perfVars, inboundVars>>

NextPreferences ==
    \/ \E enabled \in BOOLEAN : ToggleSound(enabled)
    \/ \E layout \in Layouts : ChangeLayout(layout)
    \/ Reload

SpecPreferences == Init /\ [][NextPreferences]_vars

---------------------------------------------------------------------------
(* The inbound frames of the sessions *)

(* AlertsPanel.js lines 245, 322: the sound switch.  playAlertSound is     *)
(* rebuilt for the new soundEnabled (line 84), connect with it (line 226), *)
(* and the mount effect runs again (lines 278-284).                        *)
SoundToggled(enabled) ==
    /\ ~effectPending
    /\ enabled # soundEnabled
    /\ InstallPreferences(SetSoundEnabled(Preferences, enabled))
    /\ effectPending' = TRUE
    /\ UNCHANGED <<reconnectCount, isConnected, wsRef, orphans, timers, timerRef,
                   hbRef, hbLeaked, messageQueue, sent, submitted, closures,
                   shutdown, recording, alertVars, tradeVars, perfVars, inboundVars>>

NextInbound ==
    \/ \E k \in SocketKinds : \E isRef \in BOOLEAN : OnOpen(k, isRef)
    \/ \E k \in SocketKinds : \E isRef \in BOOLEAN :
            \E frame \in Frames : OnMessage(k, isRef, frame)
    \/ \E p \in Handlers : ResumeHandler(p)

SpecInbound == InitCore /\ [][NextInbound]_vars

(* The alert frames of sessions whose user switches the sound on and off *)
AlertFrames == {frame \in Frames : frame.kind = "alert"}

NextSound ==
    \/ \E k \in SocketKinds : \E isRef \in BOOLEAN : OnOpen(k, isRef)
    \/ \E k \in SocketKinds : \E isRef \in BOOLEAN :
            \E code \in {NormalClosure, GoingAway} : OnClose(k, isRef, code)
    \/ \E enabled \in BOOLEAN : SoundToggled(enabled)
    \/ RunEffects
    \/ \E k \in SocketKinds : \E isRef \in BOOLEAN :
            \E frame \in AlertFrames : OnMessage(k, isRef, frame)
    \/ \E p \in Handlers : ResumeHandler(p)

SpecSound == InitCore /\ [][NextSound]_vars

---------------------------------------------------------------------------
(* Properties *)

UnreadCount(al) == Cardinality({i \in 1..Len(al) : ~al[i].read})

(* C1: after every ingest, mark-one-read, mark-all-read and clear-all      *)
(* operation the unread counter equals the number of alerts of the list    *)
(* whose read flag is false.                                               *)
C1_UnreadInvariant == unreadAlerts = UnreadCount(alerts)

(* C10: the trade history never holds more than 1000 entries and is        *)
(* newest-first: after n addTrade calls it holds the last min(n, 1000)     *)
(* trades, the newest at the head, so that a call on a full list evicts    *)
(* the oldest (tail) entry and no other.                                   *)
C10_BoundedNewestFirst ==
    /\ Len(trades) = Min(tradesAdded, TradeCapacity)
    /\ \A i \in 1..Len(trades) : trades[i] = tradesAdded - i + 1

(* C10 witness: the 1001st trade has evicted the first one. *)
C10_Evicted ==
    /\ tradesAdded = TradeCapacity + 1
    /\ Len(trades) = TradeCapacity
    /\ trades[1] = TradeCapacity + 1
    /\ trades[TradeCapacity] = 2

Increasing(s) == \A i, j \in 1..Len(s) : i < j => s[i] < s[j]

(* C2: the delay of the reconnect timer set by the Nth consecutive         *)
(* abnormal closure since the last open (N from 0) is                      *)
(* min(1000 * 2^N, 30000): a step that sets a timer of a closure that      *)
(* captured reconnectCount = c sets the delay Backoff(c), which has to be  *)
(* Backoff(closures).                                                      *)
C2_BackoffSchedule ==
    [][\A c \in Counts :
            (timers'[c] > timers[c] /\ closures < MaxClosures /\ shutdown = 0)
                => Backoff(c) = Backoff(closures)]_vars

(* C3: the messages reach the transport in the order of their submission,  *)
(* and the buffered ones are all later submissions than the transmitted    *)
(* ones and wait in the order of their submission.                         *)
C3_OutboundFifo == Increasing(sent \o messageQueue)

(* C3 witness: two messages have been transmitted and nothing waits. *)
C3_Transmitted ==
    /\ Len(sent) >= 2
    /\ messageQueue = <<>>
    /\ wsRef.readyState = "OPEN"

(* C4: every message submitted to sendMessage has been handed to the       *)
(* transport or is still in the outbound buffer.                           *)
C4_NeverDiscarded ==
    \A m \in 1..submitted : m \in Range(sent) \cup Range(messageQueue)

(* C5: at most one session is live (CONNECTING or OPEN) at any time. *)
C5_SingleSession == LiveCount(wsRef, orphans) <= 1

(* C6: from a disconnect() of the caller until its next connect(), no      *)
(* reconnect timer is pending.                                             *)
C6_NoTimerAfterDisconnect == shutdown >= 1 => TotalTimers(timers) = 0

(* C7: after two disconnect() calls in a row the status is disconnected,   *)
(* no timer is pending and no session is live, until the caller connects   *)
(* again.                                                                  *)
C7_DisconnectTwice ==
    shutdown = 2 =>
        /\ ~isConnected
        /\ TotalTimers(timers) = 0
        /\ LiveCount(wsRef, orphans) = 0

(* C9: the step in which a session opens hands every buffered message to   *)
(* the transport, so that none is still waiting (or lost) when the first   *)
(* inbound frame of that session is processed.                             *)
C9_DrainedOnOpen ==
    [][OpenCount(wsRef', orphans') > OpenCount(wsRef, orphans)
            => Range(messageQueue) \subseteq Range(sent')]_vars

(* A bound of the model keeps a timer from firing, an effect from running  *)
(* or the close event of a closing socket from being delivered.            *)
TimerCut(cap, viaRef) ==
    /\ IF viaRef THEN timerRef = cap
       ELSE timers[cap] > (IF timerRef = cap THEN 1 ELSE 0)
    /\ \/ reconnectCount >= MaxReconnectCount
       \/ ~TimerHandler(Cur, cap, viaRef).ok
EffectCut == effectPending /\ ~Connect(Disconnect(Cur), reconnectCount).ok
CloseCut(k, isRef) ==
    /\ Exists(k, isRef)
    /\ \A code \in CloseCodes(k) :
            ~CloseHandler(Becomes(Cur, k, isRef, ClosedSocket), k.rc, code).ok
Truncated ==
    \/ \E cap \in Counts : \E viaRef \in BOOLEAN : TimerCut(cap, viaRef)
    \/ EffectCut
    \/ \E k \in ClosingKinds : \E isRef \in BOOLEAN : CloseCut(k, isRef)

(* A reconnection is under way: the status is disconnected and a reconnect *)
(* timer is pending or a connection attempt is in progress.                *)
Retrying ==
    /\ ~isConnected
    /\ TotalTimers(timers) + ConnectingCount(wsRef, orphans) > 0

(* C8: a connection attempt that fails (the close event of a socket whose  *)
(* connection was never established) sets a reconnect timer, whatever the  *)
(* number of attempts made before; and, while disconnect() is not called   *)
(* and the endpoint accepts connections, a reconnection under way leads to *)
(* the status connected (within the bounds of the model).                  *)
C8_NeverGivesUp ==
    /\ [][(/\ SocketCount(wsRef', orphans') < SocketCount(wsRef, orphans)
           /\ EstablishedCount(wsRef', orphans') = EstablishedCount(wsRef, orphans))
            => TotalTimers(timers') = TotalTimers(timers) + 1]_vars
    /\ (Retrying ~> (isConnected \/ Truncated))

(* C8 witness: two reconnect timers have fired without an open in between, *)
(* each set by a failed attempt, and the next attempt is in progress.      *)
C8_SecondRetry ==
    /\ reconnectCount >= 2
    /\ ~effectPending
    /\ wsRef.readyState = "CONNECTING"

(* C12: a bulk update changes the performance field by field: a field the  *)
(* payload carries takes the payload's value, every other field keeps its  *)
(* value, and a payload without a performance object changes none.         *)
C12_ShallowMerge ==
    \A data \in UpdateData :
        LET next == HandleDashboardUpdate(performance, data)
            given == IF data.defined /\ data.hasPerformance
                     THEN DOMAIN data.performance ELSE {}
        IN  /\ DOMAIN next = PerfKeys
            /\ \A k \in PerfKeys :
                    next[k] = IF k \in given THEN data.performance[k]
                              ELSE performance[k]
            /\ data.defined => UpdatePerformance(performance, data) = next

(* C12 witness: a partial update has changed the balance alone. *)
C12_PartialUpdate ==
    /\ performance.balance # InitialPerformance.balance
    /\ performance.margin_level = InitialPerformance.margin_level
    /\ performance.current_drawdown = InitialPerformance.current_drawdown

(* C14: the risk level is high exactly when marginLevel < 150 or drawdown  *)
(* > 15, else medium exactly when marginLevel < 300 or drawdown > 10, else *)
(* low, for both selectors, on the values in the store; and after a bulk   *)
(* update that supplies margin level and drawdown it is the level of the   *)
(* supplied values.                                                        *)
C14_RiskLevel ==
    LET RiskOf(m, d) ==
            CASE m < 150 \/ d > 15 -> "high"
              [] ~(m < 150 \/ d > 15) /\ (m < 300 \/ d > 10) -> "medium"
              [] OTHER -> "low"
    IN
    /\ GetRiskLevel(performance)
            = RiskOf(performance.margin_level, performance.current_drawdown)
    /\ UseRiskLevel(performance) = GetRiskLevel(performance)
    /\ \A data \in UpdateData :
            (data.defined /\ data.hasPerformance
                /\ {"margin_level", "current_drawdown"} \subseteq DOMAIN data.performance)
            => GetRiskLevel(HandleDashboardUpdate(performance, data))
                    = RiskOf(data.performance.margin_level,
                             data.performance.current_drawdown)

(* C14 witness: a bulk update has put the store at the medium thresholds,  *)
(* where the level is low.                                                 *)
C14_AtThreshold ==
    /\ performance.margin_level = 300
    /\ performance.current_drawdown = 10
    /\ GetRiskLevel(performance) = "low"

(* C15: the preferences survive a reload: in every state, a new store that *)
(* runs init over the storage has the sound setting and the layout of the  *)
(* running store, so every change is in the storage as soon as it is made. *)
C15_RoundTrip ==
    LET again == LoadedStore(storage)
    IN  /\ again.sound = soundEnabled
        /\ again.layout = dashboardLayout

(* C15 witness: sound is off and a layout of two items is set, both in the *)
(* storage.                                                                *)
C15_BothPersisted ==
    /\ ~soundEnabled
    /\ dashboardLayout.kind = "array"
    /\ Len(dashboardLayout.items) = 2
    /\ dashboardLayout.items[1] # dashboardLayout.items[2]
    /\ storage["soundEnabled"] # NoItem
    /\ storage["dashboardLayout"] # NoItem

(* C11: the alert list never holds more than 100 entries and is            *)
(* newest-first: after n addAlert calls it holds the last min(n, 100)      *)
(* alerts, the newest at the head, so that a call on a full list evicts    *)
(* the oldest (tail) entry and no other.                                   *)
C11_BoundedNewestFirst ==
    /\ Len(alerts) = Min(alertsAdded, AlertCapacity)
    /\ \A i \in 1..Len(alerts) : alerts[i].n = alertsAdded - i + 1

(* C11 witness: the 101st alert has evicted the first one. *)
C11_Evicted ==
    /\ alertsAdded = AlertCapacity + 1
    /\ Len(alerts) = AlertCapacity
    /\ alerts[1].n = AlertCapacity + 1
    /\ alerts[AlertCapacity].n = 2

(* C16: a close event leaves the status disconnected and sets a reconnect  *)
(* timer exactly when its code is neither 1000 nor 1001: whatever the      *)
(* state, the handler adds no timer on a normal closure and exactly one on *)
(* any other.                                                              *)
C16_CloseSchedules ==
    \A k \in SocketKinds, isRef \in BOOLEAN :
        \A code \in CloseCodes(k) :
            Exists(k, isRef) =>
                LET r == CloseHandler(Becomes(Cur, k, isRef, ClosedSocket), k.rc, code)
                    added == IF code \in {NormalClosure, GoingAway} THEN 0 ELSE 1
                IN  r.ok =>
                        /\ ~r.conn
                        /\ TotalTimers(r.timers) = TotalTimers(timers) + added
                        /\ added = 1 => r.tref # NoTimer

(* C16 witness: an established session was lost, the status is             *)
(* disconnected and one reconnect timer is pending.                        *)
C16_Scheduled ==
    /\ ~isConnected
    /\ wsRef = ClosedSocket
    /\ sent # <<>>
    /\ TotalTimers(timers) = 1
    /\ timerRef # NoTimer

(* C18: whenever the status is disconnected no heartbeat interval is       *)
(* active.                                                                 *)
C18_NoHeartbeatWhileDisconnected == ~isConnected => ~(hbRef \/ hbLeaked)

(* C19: the drain of onopen removes an entry from the outbound buffer only *)
(* after handing it to the transport: the step in which a session opens    *)
(* takes some head part of the buffer, appends exactly that part to what   *)
(* was transmitted, and leaves the rest in order.                          *)
C19_RemovedAfterHandOff ==
    [][OpenCount(wsRef', orphans') > OpenCount(wsRef, orphans)
            => \E n \in 0..Len(messageQueue) :
                    /\ messageQueue' = SubSeq(messageQueue, n + 1, Len(messageQueue))
                    /\ sent' = sent \o SubSeq(messageQueue, 1, n)]_vars

(* C13: a frame that fails to parse, or whose type is missing or unknown,  *)
(* is discarded: whatever the state, its handler lets no exception out and *)
(* leaves the connection status, the timers, the outbound buffer and the   *)
(* store as they are.                                                      *)
C13_Discarded ==
    \A frame \in Frames :
        frame.kind \in {"malformed", "null", "untyped", "unknown"} =>
            LET r == MessageHandler(Inbound, frame)
            IN  /\ ~r.thrown
                /\ r.hook = Cur
                /\ r.alerts = alerts /\ r.unread = unreadAlerts
                /\ r.trades = trades /\ r.perf = performance
                /\ r.pending = pending
                /\ r.effects = Append(effects, Effect(received + 1, frame.kind, "console"))

(* C13 witness: a malformed frame was discarded after an alert was         *)
(* ingested and a bulk update applied.                                     *)
C13_DiscardedLate ==
    /\ effects # <<>>
    /\ effects[Len(effects)].kind = "malformed"
    /\ alerts # <<>>
    /\ isConnected

(* C17: inbound frames are handled one after the other: everything the     *)
(* handling of a frame does comes before anything the handling of a later  *)
(* frame does.                                                             *)
C17_OneAtATime ==
    \A i, j \in 1..Len(effects) : i < j => effects[i].n <= effects[j].n

(* C20: handling a trade_executed frame puts an alert at the head of the   *)
(* alert list, raises the unread counter by one and puts a trade at the    *)
(* head of the trade history.                                              *)
C20_TradeIngested ==
    [][(/\ received' = received + 1
        /\ effects'[Len(effects) + 1].kind = "trade_executed")
            => /\ Len(alerts') = Min(Len(alerts) + 1, AlertCapacity)
               /\ unreadAlerts' = unreadAlerts + 1
               /\ Len(trades') = Min(Len(trades) + 1, TradeCapacity)]_vars

(* C22: the alerts of the list have defined, pairwise distinct ids, also   *)
(* when the message carried none, so that markAlertRead(id) changes at     *)
(* most one alert.                                                         *)
C22_UniqueIds ==
    /\ \A i \in 1..Len(alerts) : alerts[i].id # UndefinedId
    /\ \A i, j \in 1..Len(alerts) : i # j => alerts[i].id # alerts[j].id

(* C23: mark-one-read is idempotent: whatever the store and the id,        *)
(* markAlertRead(id) applied twice gives the list and the unread counter   *)
(* it gives applied once.                                                  *)
C23_MarkIdempotent ==
    \A alertId \in AlertIds :
        MarkAlertRead(MarkAlertRead(AlertStore, alertId), alertId)
            = MarkAlertRead(AlertStore, alertId)

(* C24: whenever mark-all-read can be used, it leaves every alert of the   *)
(* list read and the unread counter at 0, and changes nothing else of the  *)
(* list.                                                                   *)
C24_AllRead ==
    UnreadIds(alerts) # <<>> =>
        LET r == MarkEach(AlertStore, UnreadIds(alerts))
        IN  /\ r.unread = 0
            /\ r.alerts = [i \in 1..Len(alerts) |-> [alerts[i] EXCEPT !.read = TRUE]]

(* C28: the status agrees with the current session: whenever the socket    *)
(* wsRef.current holds is open and no effect is waiting to run, the status *)
(* is connected and the heartbeat runs, whatever happened to earlier       *)
(* sockets.                                                                *)
C28_StatusOfCurrentSession ==
    (wsRef.readyState = "OPEN" /\ ~effectPending) => (isConnected /\ hbRef)

(* C29: no timer is leaked: at most one reconnect timer is pending and at  *)
(* most one heartbeat interval runs, each of them held by its reference.   *)
C29_NoLeakedTimer ==
    /\ TotalTimers(timers) <= 1
    /\ TotalTimers(timers) = 1 => (timerRef # NoTimer /\ timers[timerRef] = 1)
    /\ ~hbLeaked

(* C30: no message is handed to the transport more than once. *)
C30_AtMostOnce ==
    \A i, j \in 1..Len(sent) : i # j => sent[i] # sent[j]

(* C30 witness: one message was transmitted, the session was lost and a    *)
(* later message waits in the buffer for the reconnection.                 *)
C30_AcrossSessions ==
    /\ sent # <<>>
    /\ messageQueue # <<>>
    /\ ~isConnected
    /\ TotalTimers(timers) = 1

(* C21: handling an error frame puts an alert of priority critical at the  *)
(* head of the alert list and raises the unread counter by one.            *)
C21_ErrorSurfaced ==
    [][(/\ received' = received + 1
        /\ effects'[Len(effects) + 1].kind = "error")
            => /\ Len(alerts') = Min(Len(alerts) + 1, AlertCapacity)
               /\ alerts'[1].priority = "critical"
               /\ unreadAlerts' = unreadAlerts + 1]_vars

C26_ListsReplaced ==
    \A data \in UpdateData :
        data.defined =>
            LET r == MessageHandler(Inbound, Frame("dashboard_update", UndefinedId, data))
            IN  /\ \A k \in ListKeys :
                        r.dash[k] = IF k \in DOMAIN data.lists THEN data.lists[k]
                                    ELSE dashboard[k]
                /\ r.dash.lastUpdate = data.timestamp
                /\ r.alerts = alerts /\ r.unread = unreadAlerts
                /\ r.trades = trades /\ r.sound = soundEnabled

(* C26 witness: after an alert, a bulk update carrying the signals alone   *)
(* has replaced them and left the positions.                               *)
C26_SignalsAlone ==
    /\ alerts # <<>>
    /\ dashboard.signals # <<>>
    /\ dashboard.positions = <<>>
    /\ dashboard.lastUpdate = 1

(* C27: repeated alerts are coalesced: no two alerts of the list have the  *)
(* same type and message, and the unread counter counts no alert twice.    *)
C27_Coalesced ==
    /\ \A i, j \in 1..Len(alerts) :
            i # j => <<alerts[i].type, alerts[i].message>>
                        # <<alerts[j].type, alerts[j].message>>
    /\ unreadAlerts <= Cardinality(AlertMessages)

===========================================================================
